---- MODULE Spec2Model ----
(***************************************************************************)
(* arango_orm/collections.py : the record types (Collection, Relation),    *)
(* the field registry built by CollectionMeta, and the two mirrored        *)
(* algorithms _load (raw mapping -> instance) and _dump (instance -> raw   *)
(* mapping).                                                               *)
(*                                                                         *)
(* Python values are records [t, s, n]: t is the Python type, s the        *)
(* characters of a str, n the value of an int.  A str is a sequence of     *)
(* one-character strings so that '+' and split('/') are computed.          *)
(* A dict and an instance's attribute namespace are functions whose        *)
(* DOMAIN is the set of keys / attribute names.                            *)
(***************************************************************************)
EXTENDS Integers, Sequences, FiniteSets, TLC

\* ---------------------------------------------------------------- bounds
\* largest number of keys of a raw mapping handed to _load(m) or of the
\* keyword arguments handed to a constructor
MaxKeys == 2
\* largest number of keys of a patch handed to _load(p, instance=existing)
MaxPatchKeys == 1
\* operations that build or change a record in one behaviour
MaxOps == 3

\* ---------------------------------------------------------------- values
None == [t |-> "none", s |-> <<>>, n |-> 0]
\* marshmallow's `missing` singleton
missing == [t |-> "missing", s |-> <<>>, n |-> 0]
StrV(chars) == [t |-> "str", s |-> chars, n |-> 0]
IntV(i) == [t |-> "int", s |-> <<>>, n |-> i]

EmptyDict == [k \in {} |-> None]

\* dict(a, **b): b wins on a key conflict
DictMerge(a, b) ==
  [k \in (DOMAIN a) \cup (DOMAIN b) |-> IF k \in DOMAIN b THEN b[k] ELSE a[k]]

\* d[k] = v on a copy
DictSet(d, k, v) == [x \in (DOMAIN d) \cup {k} |-> IF x = k THEN v ELSE d[x]]

\* del d[k] on a copy
DictDel(d, k) == [x \in (DOMAIN d) \ {k} |-> d[x]]

\* k.startswith('_')
StartsWithUnderscore(k) ==
  k \in {"_key", "_id", "_from", "_to", "_rev", "_safe_list", "_index",
         "_load", "_dump", "_db", "_fields", "__collection__", "_relations",
         "_collection_config", "_post_process", "_pre_process",
         "_fields_info", "_collections_from", "_collections_to",
         "_object_from", "_object_to"}

\* s.split('/')[0]
RECURSIVE SplitFirst(_)
SplitFirst(s) ==
  IF s = <<>> \/ Head(s) = "/" THEN <<>> ELSE <<Head(s)>> \o SplitFirst(Tail(s))

\* ------------------------------------------------- marshmallow fields
\* a field descriptor: fields.String(...) / fields.Integer(...)
Field(kind, default, required, allow_none) ==
  [kind |-> kind, default |-> default, required |-> required,
   allow_none |-> allow_none]

Digits == {"0", "1", "2", "3", "4", "5", "6", "7", "8", "9"}

DigitVal(c) ==
  CASE c = "0" -> 0 [] c = "1" -> 1 [] c = "2" -> 2 [] c = "3" -> 3
    [] c = "4" -> 4 [] c = "5" -> 5 [] c = "6" -> 6 [] c = "7" -> 7
    [] c = "8" -> 8 [] c = "9" -> 9

DigitChar(d) ==
  CASE d = 0 -> "0" [] d = 1 -> "1" [] d = 2 -> "2" [] d = 3 -> "3"
    [] d = 4 -> "4" [] d = 5 -> "5" [] d = 6 -> "6" [] d = 7 -> "7"
    [] d = 8 -> "8" [] d = 9 -> "9"

\* int(s) succeeds on a non-empty run of digits
IsDigits(s) == s # <<>> /\ \A i \in 1..Len(s) : s[i] \in Digits

\* int(s)
RECURSIVE ParseInt(_)
ParseInt(s) ==
  IF s = <<>> THEN 0
  ELSE 10 * ParseInt(SubSeq(s, 1, Len(s) - 1)) + DigitVal(s[Len(s)])

\* str(n), n >= 0
RECURSIVE FormatInt(_)
FormatInt(n) ==
  IF n < 10 THEN <<DigitChar(n)>>
  ELSE FormatInt(n \div 10) \o <<DigitChar(n % 10)>>

\* Field.deserialize(value): [ok, value]
Deserialize(field, v) ==
  IF v = None THEN [ok |-> field.allow_none, value |-> None]
  ELSE IF field.kind = "String" THEN [ok |-> v.t = "str", value |-> v]
  ELSE \* Integer: int(value)
    IF v.t = "int" THEN [ok |-> TRUE, value |-> v]
    ELSE IF v.t = "str" /\ IsDigits(v.s)
      THEN [ok |-> TRUE, value |-> IntV(ParseInt(v.s))]
      ELSE [ok |-> FALSE, value |-> v]

\* Field.serialize(value): [ok, value]
Serialize(field, v) ==
  IF v = None THEN [ok |-> TRUE, value |-> None]
  ELSE IF field.kind = "String" THEN \* text_type(value)
    IF v.t = "int" THEN [ok |-> TRUE, value |-> StrV(FormatInt(v.n))]
    ELSE [ok |-> TRUE, value |-> v]
  ELSE \* Integer: int(value)
    IF v.t = "int" THEN [ok |-> TRUE, value |-> v]
    ELSE IF v.t = "str" /\ IsDigits(v.s)
      THEN [ok |-> TRUE, value |-> IntV(ParseInt(v.s))]
      ELSE [ok |-> FALSE, value |-> v]

\* Schema.load(in_dict) -> (data, errors): unknown keys are ignored, an absent
\* field is omitted unless it is required
SchemaLoad(fields, in_dict) ==
  LET present == (DOMAIN fields) \cap (DOMAIN in_dict)
      bad == {f \in present : ~Deserialize(fields[f], in_dict[f]).ok}
      lacking == {f \in (DOMAIN fields) \ (DOMAIN in_dict) : fields[f].required}
  IN [data |-> [f \in present \ bad |-> Deserialize(fields[f], in_dict[f]).value],
      errors |-> bad \cup lacking]

\* Schema.dump(obj) -> (data, errors): an attribute the object lacks is
\* replaced by the field's default, or skipped when it has none
SchemaDump(fields, attrs) ==
  LET held == (DOMAIN fields) \cap (DOMAIN attrs)
      bad == {f \in held : ~Serialize(fields[f], attrs[f]).ok}
      filled == {f \in (DOMAIN fields) \ (DOMAIN attrs) : fields[f].default # missing}
  IN [data |-> [f \in (held \ bad) \cup filled |->
                  IF f \in held THEN Serialize(fields[f], attrs[f]).value
                  ELSE fields[f].default],
      errors |-> bad]

\* ------------------------------------------------------- record types
\* The record types declared on top of the library:
\*   class Person(Collection):  __collection__ = 'p'
\*       name = String();  age = Integer(default=0)
\*   class Keyed(Collection):   __collection__ = 'k'
\*       _key = String();  name = String(allow_none=True)
\*       def _pre_process(self): ...   def _post_process(self): ...
\*   class Child(Person):       nick = String()
\*   class Edge(Relation):      __collection__ = 'e'
\*       _key = String();  age = Integer()
\*   class Strict(Collection):  __collection__ = 's'
\*       _allow_extra_fields = False
\*       name = String(required=True);  _index = String()
TypeNames == {"Person", "Keyed", "Child", "Edge", "Strict"}

\* the direct base of a record type among the record types ("" : a library class)
Parent(T) == IF T = "Child" THEN "Person" ELSE ""

IsRelation(T) == T = "Edge"

\* the entries of the class body that are fields.Field instances
OwnFields(T) ==
  CASE T = "Person" ->
         [f \in {"name", "age"} |->
            IF f = "name" THEN Field("String", missing, FALSE, FALSE)
            ELSE Field("Integer", IntV(0), FALSE, FALSE)]
    [] T = "Keyed" ->
         [f \in {"_key", "name"} |->
            IF f = "_key" THEN Field("String", missing, FALSE, FALSE)
            ELSE Field("String", missing, FALSE, TRUE)]
    [] T = "Child" ->
         [f \in {"nick"} |-> Field("String", missing, FALSE, FALSE)]
    [] T = "Edge" ->
         [f \in {"_key", "age"} |->
            IF f = "_key" THEN Field("String", missing, FALSE, FALSE)
            ELSE Field("Integer", missing, FALSE, FALSE)]
    [] T = "Strict" ->
         [f \in {"name", "_index"} |->
            IF f = "name" THEN Field("String", missing, TRUE, FALSE)
            ELSE Field("String", missing, FALSE, FALSE)]

\* getattr(cls, '_fields', {}) inside CollectionMeta.__new__(cls, ...): cls is
\* the metaclass CollectionMeta, which has no attribute _fields
MetaclassFields == EmptyDict

\* CollectionMeta.__new__: new_class._fields
Fields(T) == DictMerge(MetaclassFields, OwnFields(T))

\* cls.__collection__ (class attribute, inherited along the MRO)
ClassCollection(T) ==
  CASE T = "Person" -> StrV(<<"p">>)
    [] T = "Keyed" -> StrV(<<"k">>)
    [] T = "Child" -> StrV(<<"p">>)
    [] T = "Edge" -> StrV(<<"e">>)
    [] T = "Strict" -> StrV(<<"s">>)

\* cls._allow_extra_fields
AllowExtraFields(T) == T # "Strict"

\* hasattr(new_obj, '_pre_process') / hasattr(new_obj, '_post_process')
HasHooks(T) == T = "Keyed"

\* Collection._safe_list / Relation._safe_list
SafeList(T) ==
  IF IsRelation(T)
  THEN {"__collection__", "_safe_list", "_id", "_collections_from",
        "_collections_to", "_object_from", "_object_to", "_index",
        "_collection_config", "_fields"}
  ELSE {"__collection__", "_safe_list", "_relations", "_id", "_index",
        "_collection_config", "_post_process", "_pre_process",
        "_fields_info", "_fields"}

\* the names k with k in dir(cls) and callable(getattr(cls, k))
CallableMembers(T) ==
  {"schema", "_load", "_dump"}
    \cup (IF HasHooks(T) THEN {"_pre_process", "_post_process"} ELSE {})

\* ------------------------------------------------------------ instances
\* an instance: its class, its effective __collection__, its attributes
\* (the instance __dict__ without __collection__ and _db), and _db
NoDb == "none"

\* Collection.__init__(self, collection_name, **kwargs)
CollectionInit(T, collection_name, kwargs, seeded) ==
  LET keyed == IF "_key" \notin DOMAIN kwargs
               THEN DictSet(seeded, "_key", None) ELSE seeded
      defaults == [f \in DOMAIN Fields(T) |->
                     IF Fields(T)[f].default = missing THEN None
                     ELSE Fields(T)[f].default]
  IN [cls |-> T,
      coll |-> IF collection_name # None THEN collection_name
               ELSE ClassCollection(T),
      attrs |-> DictMerge(DictMerge(keyed, defaults), kwargs),
      db |-> NoDb]

\* Relation.__init__(self, collection_name, **kwargs)
RelationInit(T, collection_name, kwargs) ==
  LET seeded ==
        [a \in {"_collections_from", "_collections_to", "_from", "_to",
                "_object_from", "_object_to"} |->
           IF a \in {"_collections_from", "_collections_to"} /\ a \in DOMAIN kwargs
           THEN kwargs[a] ELSE None]
  IN CollectionInit(T, collection_name, kwargs, seeded)

\* cls(collection_name, **kwargs)
New(T, collection_name, kwargs) ==
  IF IsRelation(T) THEN RelationInit(T, collection_name, kwargs)
  ELSE CollectionInit(T, collection_name, kwargs, EmptyDict)

\* hasattr(obj, name) for a data attribute
HasAttr(o, name) == name \in DOMAIN o.attrs

\* _id built from the class's collection instead of the instance's
IdFromClass(o) ==
  IF HasAttr(o, "_key") /\ o.attrs["_key"] # None
  THEN StrV(ClassCollection(o.cls).s \o <<"/">> \o o.attrs["_key"].s)
  ELSE None

\* Collection._id
Id(o) ==
  IF HasAttr(o, "_key") /\ o.attrs["_key"] # None
  THEN StrV(o.coll.s \o <<"/">> \o o.attrs["_key"].s)
  ELSE None

\* "if '_key' not in data and hasattr(self, '_key')"
AddKey(o, data) ==
  IF "_key" \notin DOMAIN data /\ HasAttr(o, "_key")
  THEN DictSet(data, "_key", o.attrs["_key"]) ELSE data

\* _dump that keeps a null _key
DropNullKeyNever(data) == data

\* "if '_key' in data and data['_key'] is None: del data['_key']"
DropNullKey(data) ==
  IF "_key" \in DOMAIN data /\ data["_key"] = None
  THEN DictDel(data, "_key") ELSE data

\* the names of dir(self) that are not in data, not callable and do not
\* start with '_'
ExtraProps(o, data) ==
  {p \in (DOMAIN o.attrs) \cup CallableMembers(o.cls) :
     ~(p \in DOMAIN data
       \/ (p \notin DOMAIN o.attrs /\ p \in CallableMembers(o.cls))
       \/ StartsWithUnderscore(p))}

\* _dump that forgets the extra fields
AddExtrasForgotten(o, data) == data

\* "Also dump extra fields as is without any validation or conversion"
AddExtras(o, data) ==
  IF AllowExtraFields(o.cls)
  THEN DictMerge(data, [p \in ExtraProps(o, data) |-> o.attrs[p]]) ELSE data

\* Collection._dump after schema().dump(self) returned sd: [ok, data]
DumpFrom(o, sd) ==
  IF sd.errors # {} THEN [ok |-> FALSE, data |-> EmptyDict]
  ELSE [ok |-> TRUE, data |-> AddExtras(o, DropNullKey(AddKey(o, sd.data)))]

\* Collection._dump: [ok, data]
CollectionDump(o) == DumpFrom(o, SchemaDump(Fields(o.cls), o.attrs))

\* "if '_from' not in data and hasattr(self, '_from')", and the same for _to
AddEndpoint(o, data, name) ==
  IF name \notin DOMAIN data /\ HasAttr(o, name)
  THEN DictSet(data, name, o.attrs[name]) ELSE data

\* Relation._dump after super()._dump() returned base: [ok, data]
WithEndpoints(o, base) ==
  IF ~base.ok THEN base
  ELSE [ok |-> TRUE,
        data |-> AddEndpoint(o, AddEndpoint(o, base.data, "_from"), "_to")]

\* Relation._dump: [ok, data]
RelationDump(o) == WithEndpoints(o, CollectionDump(o))

\* instance._dump()
DumpOf(o) == IF IsRelation(o.cls) THEN RelationDump(o) ELSE CollectionDump(o)

\* ---------------------------------------------------------------- _load
NoObj == [cls |-> "", coll |-> None, attrs |-> EmptyDict, db |-> NoDb]

NoErr == [kind |-> "none", type |-> ""]

\* data after "add any extra fields present in in_dict into data"
WithExtras(T, in_dict, data) ==
  IF AllowExtraFields(T)
  THEN DictMerge([k \in {x \in DOMAIN in_dict :
                           x \notin DOMAIN data /\ ~StartsWithUnderscore(x)}
                    |-> in_dict[k]],
                 data)
  ELSE data

\* the collision check without its callable-member half
ConflictsSafeListOnly(T, data) == {k \in DOMAIN data : k \in SafeList(T)}

\* the keys of data on which the assignment loop raises MemberExistsException
Conflicts(T, data) ==
  {k \in DOMAIN data : k \in SafeList(T) \/ k \in CallableMembers(T)}

\* instance._dump() in "if instance: in_dict = dict(instance._dump(), **in_dict)"
InstanceDump(inst) ==
  IF inst # NoObj THEN DumpOf(inst) ELSE [ok |-> TRUE, data |-> EmptyDict]

\* what a call raised: no object is returned
Raised(kind, T, called) ==
  [err |-> [kind |-> kind, type |-> T], obj |-> NoObj, hooks |-> called,
   conflicts |-> {}]

\* "if db: new_obj._db = db else: new_obj._db = getattr(instance, '_db', None)"
DbOf(inst, db) == IF db # NoDb THEN db ELSE inst.db

\* "if '_key' in in_dict and not hasattr(new_obj, '_key')"
AssignKey(attrs, in_dict) ==
  IF "_key" \in DOMAIN in_dict /\ "_key" \notin DOMAIN attrs
  THEN DictSet(attrs, "_key", in_dict["_key"]) ELSE attrs

\* the collection taken to be the whole _id, without the split
CollectionOfWholeId(new_obj, in_dict) ==
  IF "_id" \in DOMAIN in_dict THEN in_dict["_id"] ELSE new_obj.coll

\* "if '_id' in in_dict: new_obj.__collection__ = in_dict['_id'].split('/')[0]"
CollectionOf(new_obj, in_dict) ==
  IF "_id" \in DOMAIN in_dict
  THEN StrV(SplitFirst(in_dict["_id"].s)) ELSE new_obj.coll

\* "if '_from' in in_dict: setattr(new_obj, '_from', in_dict['_from'])", and
\* the same for _to
AssignEndpoint(attrs, in_dict, name) ==
  IF name \in DOMAIN in_dict THEN DictSet(attrs, name, in_dict[name]) ELSE attrs

\* the hooks Collection._load calls when the assignment loop does not raise
HooksCalled(T) ==
  IF HasHooks(T) THEN <<"_pre_process", "_post_process">> ELSE <<>>

\* the hooks Collection._load has called when the assignment loop raises
HooksBeforeAssign(T) == IF HasHooks(T) THEN <<"_pre_process">> ELSE <<>>

\* Collection._load from "new_obj = cls()" on
CollectionPopulate(T, in_dict, inst, db, data, new_obj) ==
  IF Conflicts(T, data) # {}
  THEN [err |-> [kind |-> "MemberExistsException", type |-> T],
        obj |-> NoObj, hooks |-> HooksBeforeAssign(T),
        conflicts |-> Conflicts(T, data)]
  ELSE [err |-> NoErr,
        obj |-> [cls |-> T,
                 coll |-> CollectionOf(new_obj, in_dict),
                 attrs |-> AssignKey(DictMerge(new_obj.attrs, data), in_dict),
                 db |-> DbOf(inst, db)],
        hooks |-> HooksCalled(T), conflicts |-> {}]

\* Relation._load from "new_obj = cls()" on
RelationPopulate(T, in_dict, inst, db, data, new_obj) ==
  IF Conflicts(T, data) # {}
  THEN [err |-> [kind |-> "MemberExistsException", type |-> T],
        obj |-> NoObj, hooks |-> <<>>, conflicts |-> Conflicts(T, data)]
  ELSE [err |-> NoErr,
        obj |-> [cls |-> T,
                 coll |-> CollectionOf(new_obj, in_dict),
                 attrs |-> AssignEndpoint(
                             AssignEndpoint(
                               AssignKey(DictMerge(new_obj.attrs, data), in_dict),
                               in_dict, "_from"),
                             in_dict, "_to"),
                 db |-> DbOf(inst, db)],
        hooks |-> <<>>, conflicts |-> {}]

\* _load that goes on with the fields that did convert when the schema
\* reported errors
LoadValidatedUnchecked(T, in_dict, inst, db, sl) ==
  IF IsRelation(T)
  THEN RelationPopulate(T, in_dict, inst, db,
                        WithExtras(T, in_dict, sl.data), New(T, None, EmptyDict))
  ELSE CollectionPopulate(T, in_dict, inst, db,
                          WithExtras(T, in_dict, sl.data), New(T, None, EmptyDict))

\* _load after cls.schema().load(in_dict) returned sl
LoadValidated(T, in_dict, inst, db, sl) ==
  IF sl.errors # {} THEN Raised("load_error", T, <<>>)
  ELSE IF IsRelation(T)
    THEN RelationPopulate(T, in_dict, inst, db,
                          WithExtras(T, in_dict, sl.data), New(T, None, EmptyDict))
    ELSE CollectionPopulate(T, in_dict, inst, db,
                            WithExtras(T, in_dict, sl.data), New(T, None, EmptyDict))

\* _load once in_dict is merged
LoadMerged(T, in_dict, inst, db) ==
  LoadValidated(T, in_dict, inst, db, SchemaLoad(Fields(T), in_dict))

\* _load after instance._dump() returned base (a failing dump propagates)
LoadWith(T, raw, inst, db, base) ==
  IF ~base.ok THEN Raised("dump_error", inst.cls, <<>>)
  ELSE LoadMerged(T, DictMerge(base.data, raw), inst, db)

\* Collection._load(cls, in_dict, instance, db)
CollectionLoad(T, raw, inst, db) == LoadWith(T, raw, inst, db, InstanceDump(inst))

\* Relation._load(cls, in_dict, instance, db)
RelationLoad(T, raw, inst, db) == LoadWith(T, raw, inst, db, InstanceDump(inst))

\* cls._load(in_dict, instance, db)
LoadOf(T, raw, inst, db) ==
  IF IsRelation(T) THEN RelationLoad(T, raw, inst, db)
  ELSE CollectionLoad(T, raw, inst, db)

\* --------------------------------------------------------------- inputs
\* the keys a raw mapping for type T is drawn from: identity fields, declared
\* fields, an undeclared field x, the storage attribute _rev, a reserved name
\* and the name of a method
RawKeys(T) ==
  CASE T = "Person" -> {"_key", "_id", "name", "age", "x", "_rev",
                        "_safe_list", "schema"}
    [] T = "Keyed" -> {"_key", "_id", "name", "x", "schema"}
    [] T = "Child" -> {"_key", "name", "nick", "x"}
    [] T = "Edge" -> {"_key", "_id", "_from", "_to", "age", "x"}
    [] T = "Strict" -> {"_key", "name", "_index", "x"}

RawVals(k) ==
  CASE k = "_key" -> {StrV(<<"1">>), None}
    [] k = "_id" -> {StrV(<<"a", "/", "1">>)}
    [] k = "_from" -> {StrV(<<"p", "/", "1">>)}
    [] k = "_to" -> {StrV(<<"p", "/", "2">>)}
    [] k = "name" -> {StrV(<<"a">>), IntV(1), None}
    [] k = "age" -> {IntV(1), StrV(<<"2">>), StrV(<<"x">>)}
    [] k = "x" -> {IntV(7)}
    [] OTHER -> {StrV(<<"a">>)}

\* the keys and values of a patch
PatchKeys(T) == RawKeys(T) \cap {"_key", "_id", "_from", "name", "age", "x"}

PatchVals(k) ==
  CASE k = "_key" -> {StrV(<<"2">>)}
    [] k = "_id" -> {StrV(<<"b", "/", "2">>)}
    [] k = "_from" -> {StrV(<<"p", "/", "3">>)}
    [] k = "name" -> {StrV(<<"b">>)}
    [] k = "age" -> {IntV(3)}
    [] k = "x" -> {StrV(<<"b">>)}

\* the keyword arguments of a direct construction
CtorKeys(T) == RawKeys(T) \cap {"_key", "_id", "_from", "name", "age", "x"}

CtorVals(k) ==
  CASE k = "_key" -> {StrV(<<"1">>), None}
    [] k = "_id" -> {StrV(<<"a", "/", "1">>)}
    [] k = "_from" -> {StrV(<<"p", "/", "1">>)}
    [] k = "name" -> {StrV(<<"a">>)}
    [] k = "age" -> {IntV(1), StrV(<<"x">>)}
    [] k = "x" -> {IntV(7)}

CollectionNames == {None, StrV(<<"c">>)}

Dbs == {NoDb, "db"}

KeyVals == {StrV(<<"1">>), StrV(<<"3">>), None}

\* the values of key k in a mapping of the given role
Vals(role, k) ==
  CASE role = "raw" -> RawVals(k)
    [] role = "patch" -> PatchVals(k)
    [] role = "ctor" -> CtorVals(k)

\* the mappings with key set K
RECURSIVE MapsOver(_, _)
MapsOver(K, role) ==
  IF K = {} THEN {EmptyDict}
  ELSE LET k == CHOOSE x \in K : TRUE
       IN {DictSet(m, k, v) : m \in MapsOver(K \ {k}, role), v \in Vals(role, k)}

\* the mappings with at most n keys out of keys
Mappings(keys, role, n) ==
  UNION {MapsOver(K, role) : K \in {S \in SUBSET keys : Cardinality(S) <= n}}

RawMappings == [T \in TypeNames |-> Mappings(RawKeys(T), "raw", MaxKeys)]

PatchMappings == [T \in TypeNames |-> Mappings(PatchKeys(T), "patch", MaxPatchKeys)]

CtorMappings == [T \in TypeNames |-> Mappings(CtorKeys(T), "ctor", MaxKeys)]

\* the patches applied to a held record
PatchesFor(o) == IF o = NoObj THEN {} ELSE PatchMappings[o.cls]

\* ---------------------------------------------------------------- state
VARIABLES
  cls,       \* the record type the last operation was called on
  obj,       \* the record the caller holds (NoObj: none, the last call raised)
  instance,  \* the instance argument of the last _load (NoObj: none)
  in_raw,    \* the raw mapping argument of the last _load
  origin,    \* how obj was made: "none", "init", "load", "patch", "assigned"
  op,        \* the last operation
  out,       \* the mapping returned by the last _dump
  err,       \* what the last operation raised
  hooks,     \* the hooks the last _load called, in order
  conflict,  \* the key named by the last MemberExistsException
  idres,     \* the value read from obj._id by the last read
  nops       \* operations that built or changed a record so far

vars == <<cls, obj, instance, in_raw, origin, op, out, err, hooks, conflict, idres, nops>>

Init ==
  /\ cls = ""
  /\ obj = NoObj
  /\ instance = NoObj
  /\ in_raw = EmptyDict
  /\ origin = "none"
  /\ op = "start"
  /\ out = EmptyDict
  /\ err = NoErr
  /\ hooks = <<>>
  /\ conflict = ""
  /\ idres = None
  /\ nops = 0

\* T(collection_name, **kwargs); assigning _id, a property without a setter,
\* raises AttributeError
Construct(T, collection_name, kwargs) ==
  /\ nops = 0
  /\ nops' = 1
  /\ op' = "init"
  /\ cls' = T
  /\ IF "_id" \in DOMAIN kwargs
     THEN /\ obj' = NoObj
          /\ err' = [kind |-> "AttributeError", type |-> T]
          /\ origin' = "none"
     ELSE /\ obj' = New(T, collection_name, kwargs)
          /\ err' = NoErr
          /\ origin' = "init"
  /\ instance' = NoObj
  /\ in_raw' = EmptyDict
  /\ out' = EmptyDict
  /\ hooks' = <<>>
  /\ conflict' = ""
  /\ idres' = None

\* the state after r == cls._load(raw, instance=inst, db=db)
Loaded(r, raw, inst, how) ==
  /\ obj' = r.obj
  /\ err' = r.err
  /\ hooks' = r.hooks
  /\ IF r.conflicts = {} THEN conflict' = ""
     ELSE \E k \in r.conflicts : conflict' = k
  /\ origin' = IF r.obj = NoObj THEN "none" ELSE how
  /\ instance' = inst
  /\ in_raw' = raw
  /\ out' = EmptyDict
  /\ idres' = None

\* T._load(m, db=db)
Load(T, m, db) ==
  /\ nops = 0
  /\ nops' = 1
  /\ op' = "load"
  /\ cls' = T
  /\ Loaded(LoadOf(T, m, NoObj, db), m, NoObj, "load")

\* type(obj)._load(p, instance=obj)
PatchLoad(p) ==
  /\ obj # NoObj
  /\ nops < MaxOps
  /\ nops' = nops + 1
  /\ op' = "patch"
  /\ cls' = obj.cls
  /\ Loaded(LoadOf(obj.cls, p, obj, NoDb), p, obj, "patch")

\* obj._key = v
SetKey(v) ==
  /\ obj # NoObj
  /\ nops < MaxOps
  /\ nops' = nops + 1
  /\ op' = "setkey"
  /\ cls' = obj.cls
  /\ obj' = [obj EXCEPT !.attrs = DictSet(obj.attrs, "_key", v)]
  /\ origin' = "assigned"
  /\ instance' = NoObj
  /\ in_raw' = EmptyDict
  /\ out' = EmptyDict
  /\ err' = NoErr
  /\ hooks' = <<>>
  /\ conflict' = ""
  /\ idres' = None

\* the state after r == obj._dump()
Dumped(r) ==
  /\ out' = r.data
  /\ err' = IF r.ok THEN NoErr ELSE [kind |-> "dump_error", type |-> obj.cls]

\* obj._dump()
Dump ==
  /\ obj # NoObj
  /\ op' = "dump"
  /\ cls' = obj.cls
  /\ Dumped(DumpOf(obj))
  /\ hooks' = <<>>
  /\ conflict' = ""
  /\ idres' = None
  /\ UNCHANGED <<obj, instance, in_raw, origin, nops>>

\* obj._id
GetId ==
  /\ obj # NoObj
  /\ op' = "id"
  /\ cls' = obj.cls
  /\ idres' = Id(obj)
  /\ out' = EmptyDict
  /\ err' = NoErr
  /\ hooks' = <<>>
  /\ conflict' = ""
  /\ UNCHANGED <<obj, instance, in_raw, origin, nops>>

\* A construction or a load without instance reads nothing of the record held
\* so far, so every behaviour starts with one of them.
Next ==
  \/ /\ nops = 0
     /\ \E T \in TypeNames : \E cn \in CollectionNames : \E kw \in CtorMappings[T] :
          Construct(T, cn, kw)
  \/ /\ nops = 0
     /\ \E T \in TypeNames : \E m \in RawMappings[T] : \E db \in Dbs : Load(T, m, db)
  \/ \E p \in PatchesFor(obj) : PatchLoad(p)
  \/ \E v \in KeyVals : SetKey(v)
  \/ Dump
  \/ GetId

Spec == Init /\ [][Next]_vars

\* --------------------------------------------------------------- claims
\* the last operation was a _dump that returned a mapping
DumpReturned == op = "dump" /\ err = NoErr

\* out is T._load(in_raw)._dump(): obj came from a load without instance
\* and was not changed since
RoundTripped == DumpReturned /\ origin = "load"

\* the value a declared field absent from the input is filled with
DefaultFill(field) == IF field.default = missing THEN None ELSE field.default

\* every value of m is already in the form the schema converts it to, and
\* a _key it carries is not null
Canonical(T, m) ==
  /\ \A k \in (DOMAIN m) \cap (DOMAIN Fields(T)) :
       Deserialize(Fields(T)[k], m[k]).value = m[k]
  /\ "_key" \in DOMAIN m => m["_key"] # None

\* C1: for a canonical raw mapping m holding only declared fields and
\* optionally _key, _load(m)._dump() has every key of m with m's value (a
\* _key included) and besides them only declared fields at their default.
C1_RoundTrip ==
  (/\ RoundTripped
   /\ DOMAIN in_raw \subseteq (DOMAIN Fields(cls)) \cup {"_key"}
   /\ Canonical(cls, in_raw))
  => /\ \A k \in DOMAIN in_raw : k \in DOMAIN out /\ out[k] = in_raw[k]
     /\ \A k \in (DOMAIN out) \ (DOMAIN in_raw) :
          k \in DOMAIN Fields(cls) /\ out[k] = DefaultFill(Fields(cls)[k])

\* C2 as stated: on a type that allows extra fields every undeclared key of m
\* (other than _key, whose loss is the subject of C1) is in _load(m)._dump()
\* with its value.
C2_EveryUndeclaredKeySurvives ==
  (RoundTripped /\ AllowExtraFields(cls))
  => \A x \in (DOMAIN in_raw) \ ((DOMAIN Fields(cls)) \cup {"_key"}) :
       x \in DOMAIN out /\ out[x] = in_raw[x]

\* C2 amended: on a type that allows extra fields, when the load and the dump
\* succeed, every undeclared key of the raw mapping (or of the patch) that does
\* not start with an underscore is in the dump with its value unchanged.
C2_ExtraFieldSurvival ==
  (DumpReturned /\ origin \in {"load", "patch"} /\ AllowExtraFields(cls))
  => \A x \in (DOMAIN in_raw) \ (DOMAIN Fields(cls)) :
       ~StartsWithUnderscore(x) => x \in DOMAIN out /\ out[x] = in_raw[x]

C2_Witness ==
  /\ RoundTripped
  /\ cls = "Person"
  /\ "x" \in DOMAIN in_raw
  /\ "x" \in DOMAIN out
  /\ out["x"] = IntV(7)

\* the fields of a record the patch claim speaks of: declared fields, extra
\* fields and _key
RecordFields(o) ==
  {k \in DOMAIN o.attrs : k = "_key" \/ ~StartsWithUnderscore(k)}

\* C3: a successful _load(p, instance=existing) returns a record holding
\* p's value on every declared or extra key of p and existing's value on every
\* other field of existing (declared, extra, _key).
C3_PatchSemantics ==
  origin = "patch"
  => /\ \A k \in RecordFields(instance) \ (DOMAIN in_raw) :
          k \in DOMAIN obj.attrs /\ obj.attrs[k] = instance.attrs[k]
     /\ \A k \in DOMAIN in_raw :
          ~StartsWithUnderscore(k) => k \in DOMAIN obj.attrs /\ obj.attrs[k] = in_raw[k]

\* C4: the dump of a loaded relation holds m's _from and _to when m carries
\* both, and neither key when m carries neither.
C4_EndpointPassthrough ==
  (RoundTripped /\ IsRelation(cls))
  => /\ {"_from", "_to"} \subseteq DOMAIN in_raw
          => /\ {"_from", "_to"} \subseteq DOMAIN out
             /\ out["_from"] = in_raw["_from"]
             /\ out["_to"] = in_raw["_to"]
     /\ {"_from", "_to"} \cap (DOMAIN in_raw) = {}
          => {"_from", "_to"} \cap (DOMAIN out) = {}

\* the reserved names of a type: its safe list and its callable members
Reserved(T) == SafeList(T) \cup CallableMembers(T)

\* C5 as stated: a load (whose validation passes) of a mapping holding the key
\* _safe_list or the name of a callable member raises MemberExistsException
\* and returns no object.
C5_EveryReservedKeyRejected ==
  (/\ op = "load"
   /\ err.kind # "load_error"
   /\ \E k \in DOMAIN in_raw : k = "_safe_list" \/ k \in CallableMembers(cls))
  => err.kind = "MemberExistsException" /\ obj = NoObj

\* the keys the assignment loop meets: a declared field, or an undeclared key
\* without a leading underscore on a type that allows extra fields
Assigned(T, k) ==
  k \in DOMAIN Fields(T) \/ (AllowExtraFields(T) /\ ~StartsWithUnderscore(k))

\* C5 amended: a load whose validation passes raises MemberExistsException,
\* naming an offending key and the type and returning no object, exactly when
\* the mapping holds a reserved name that is a declared field or an undeclared
\* key without a leading underscore; an undeclared reserved key with a leading
\* underscore (such as _safe_list) is ignored: the load succeeds and the key is
\* not assigned.
C5_NamingConflict ==
  (op = "load" /\ err.kind # "load_error")
  => /\ (\E k \in DOMAIN in_raw : k \in Reserved(cls) /\ Assigned(cls, k))
          <=> err.kind = "MemberExistsException"
     /\ err.kind = "MemberExistsException"
          => /\ obj = NoObj
             /\ err.type = cls
             /\ conflict \in DOMAIN in_raw
             /\ conflict \in Reserved(cls)
     /\ err = NoErr
          => \A k \in (DOMAIN in_raw) \cap Reserved(cls) : k \notin DOMAIN obj.attrs

C5_Witness ==
  /\ op = "load"
  /\ err.kind = "MemberExistsException"
  /\ conflict = "schema"
  /\ obj = NoObj

\* the fields declared by T and by every ancestor record type, own first
RECURSIVE DeclaredFields(_)
DeclaredFields(T) ==
  IF T = "" THEN EmptyDict ELSE DictMerge(DeclaredFields(Parent(T)), OwnFields(T))

\* C6: the schema of a type is its own fields merged with its ancestors'
\* (own first), and _load treats an inherited field as declared: a value that
\* the inherited field rejects is a load error.
C6_SchemaInheritance ==
  cls # ""
  => /\ Fields(cls) = DeclaredFields(cls)
     /\ (op = "load" /\ SchemaLoad(DeclaredFields(cls), in_raw).errors # {})
          => err.kind = "load_error"

\* the mapping a load handed to the schema
InDict == IF op = "patch" THEN DictMerge(DumpOf(instance).data, in_raw) ELSE in_raw

\* C7: when the schema's load reports errors, _load raises the load error
\* naming the type, with no instance returned and no hook called; when the
\* schema's dump reports errors, _dump raises the dump error naming the type
\* and returns no mapping; and neither error is raised otherwise.
C7_FailFast ==
  /\ (op = "load" \/ (op = "patch" /\ DumpOf(instance).ok))
       => /\ SchemaLoad(Fields(cls), InDict).errors # {} <=> err.kind = "load_error"
          /\ err.kind = "load_error"
               => obj = NoObj /\ hooks = <<>> /\ err.type = cls
  /\ op = "dump"
       => /\ SchemaDump(Fields(cls), obj.attrs).errors # {} <=> err.kind = "dump_error"
          /\ err.kind = "dump_error" => out = EmptyDict /\ err.type = cls

C7_Witness ==
  /\ op = "load"
  /\ cls = "Keyed"
  /\ err.kind = "load_error"
  /\ "_key" \in DOMAIN in_raw

\* C8: _id is never an attribute of a record, and a read of _id gives the
\* effective collection name, "/" and _key when _key is set and not null
\* (_key "1" in collection "p" gives "p/1"), and null otherwise.
C8_IdentityDerivation ==
  /\ obj # NoObj => "_id" \notin DOMAIN obj.attrs
  /\ op = "id"
       => IF HasAttr(obj, "_key") /\ obj.attrs["_key"] # None
          THEN /\ idres.t = "str"
               /\ idres.s = obj.coll.s \o <<"/">> \o obj.attrs["_key"].s
               /\ (obj.coll = StrV(<<"p">>) /\ obj.attrs["_key"] = StrV(<<"1">>))
                    => idres = StrV(<<"p", "/", "1">>)
          ELSE idres = None

C8_Witness ==
  /\ op = "id"
  /\ origin = "patch"
  /\ cls = "Keyed"
  /\ obj.coll = StrV(<<"b">>)
  /\ idres = StrV(<<"b", "/", "1">>)

\* C9: a successful load of a mapping carrying _id gives an instance whose
\* collection is the part of _id before its first "/"; without _id the
\* instance has the collection its type is bound to.
C9_CollectionOverride ==
  origin \in {"load", "patch"}
  => IF "_id" \in DOMAIN in_raw
     THEN \E n \in 1..Len(in_raw["_id"].s) :
            /\ in_raw["_id"].s[n] = "/"
            /\ \A i \in 1..(n - 1) : in_raw["_id"].s[i] # "/"
            /\ obj.coll = StrV(SubSeq(in_raw["_id"].s, 1, n - 1))
     ELSE obj.coll = ClassCollection(cls)

C9_Witness ==
  /\ origin = "load"
  /\ cls = "Person"
  /\ "_id" \in DOMAIN in_raw
  /\ obj.coll = StrV(<<"a">>)
  /\ ClassCollection(cls) = StrV(<<"p">>)

\* C10: a returned dump never maps _key to null, has no _key when the
\* record's _key is null, and has a _key when the record's _key is not null.
C10_NullKeyRemoval ==
  DumpReturned
  => /\ "_key" \in DOMAIN out => out["_key"] # None
     /\ obj.attrs["_key"] = None => "_key" \notin DOMAIN out
     /\ obj.attrs["_key"] # None => "_key" \in DOMAIN out

C10_Witness ==
  /\ DumpReturned
  /\ IsRelation(cls)
  /\ origin = "assigned"
  /\ obj.attrs["_key"] = None
  /\ "_key" \notin DOMAIN out

====
